---- MODULE Spec2Model ----
(***************************************************************************)
(* Model of src/main.py: a FastAPI chatbot with an in-memory TTL cache, an *)
(* optional remote (OpenAI) responder and a local fallback responder.      *)
(*                                                                         *)
(* Text.  A Python str is a sequence of runs <<c, n>>: n >= 1 copies of    *)
(* the character c, adjacent runs holding different characters, so that    *)
(* two texts are equal exactly when their run sequences are equal and a    *)
(* message of 2000 characters is one run.  A fixed non-ASCII literal of    *)
(* the source (a Bengali sentence, a Bengali token) is one character       *)
(* written in angle brackets; none of them holds an upper-case letter or   *)
(* white space at either end.                                              *)
(*                                                                         *)
(* Time.  now is time.time() / loop.time() in whole time units.  The event *)
(* loop is single threaded: the code between two suspension points is one  *)
(* action.  A coroutine is suspended before its first step (the task that  *)
(* wait_for creates), in the network call, and between the return of       *)
(* generate_response and the resumption of chat.  Time may pass at each of *)
(* these points; a timer that is due fires before time passes further.     *)
(***************************************************************************)
EXTENDS Integers, Sequences, FiniteSets, TLC

VARIABLES
    now,             \* the clock
    OPENAI_API_KEY,  \* TRUE iff the credential is set (main.py:16)
    CACHE_TTL,       \* int(os.getenv("CACHE_TTL_SECONDS", "60")) (main.py:28)
    CACHE,           \* the dict CACHE: key -> [value, expiry] (main.py:27)
    req,             \* the POST /chat requests, by request id
    writer,          \* key -> the request whose set_cache wrote it last
    hist,            \* the last direct cache operation (SpecCache)
    puts,            \* key -> the last direct set_cache on it
    running,         \* the coroutine the event loop is running, or 0
    frame            \* the coroutines statement by statement (SpecSteps)

vars == <<now, OPENAI_API_KEY, CACHE_TTL, CACHE, req, writer, hist, puts,
          running, frame>>

----------------------------------------------------------------------------
\* Bounds of the model.

NumReq == 2
MaxTime == 13
MaxLag == 2
MaxCacheTime == 3
SmallTTL == 1
MaxPutTTL == 1
MaxMsgLen == 4

\* Program constants.

DEFAULT_CACHE_TTL == 60
MAX_MESSAGE_LEN == 2000
REMOTE_TIMEOUT == 10
REQUEST_TIMEOUT == 12

Requests == 1..NumReq

----------------------------------------------------------------------------
\* Text (str) operations.

RECURSIVE Merge(_)
Merge(s) ==
    IF Len(s) < 2 THEN s
    ELSE IF s[1][1] = s[2][1]
         THEN Merge(<<<<s[1][1], s[1][2] + s[2][2]>>>> \o SubSeq(s, 3, Len(s)))
         ELSE <<s[1]>> \o Merge(Tail(s))

Str(chars) == Merge([i \in 1..Len(chars) |-> <<chars[i], 1>>])

Concat(a, b) == Merge(a \o b)

RECURSIVE TextLen(_)
TextLen(s) == IF s = <<>> THEN 0 ELSE s[1][2] + TextLen(Tail(s))

Reverse(s) == [i \in 1..Len(s) |-> s[Len(s) + 1 - i]]

IsSpace(c) == c \in {" ", "\n", "\t"}

RECURSIVE LStrip(_)
LStrip(s) == IF s # <<>> /\ IsSpace(s[1][1]) THEN LStrip(Tail(s)) ELSE s

Strip(s) == Reverse(LStrip(Reverse(LStrip(s))))

LowerChar(c) ==
    CASE c = "H" -> "h"
      [] c = "E" -> "e"
      [] c = "L" -> "l"
      [] c = "O" -> "o"
      [] c = "Y" -> "y"
      [] OTHER -> c

Lower(s) == Merge([i \in 1..Len(s) |-> <<LowerChar(s[i][1]), s[i][2]>>])

\* t in s.  On runs: a text of one run occurs in a run of its character
\* that is at least as long; a text of k >= 2 runs occurs where its inner
\* runs match exactly, its first run is the end of a run of s and its last
\* run the start of one.
Contains(s, t) ==
    LET k == Len(t)
    IN  IF k = 0 THEN TRUE
        ELSE IF k = 1
        THEN \E p \in 1..Len(s) : s[p][1] = t[1][1] /\ s[p][2] >= t[1][2]
        ELSE \E p \in 1..(Len(s) - k + 1) :
                /\ s[p][1] = t[1][1] /\ s[p][2] >= t[1][2]
                /\ s[p + k - 1][1] = t[k][1] /\ s[p + k - 1][2] >= t[k][2]
                /\ \A q \in 2..(k - 1) : s[p + q - 1] = t[q]

\* Python truthiness of a str
Truthy(s) == s # <<>>

\* Optional[str]
None == [some |-> FALSE, val |-> <<>>]
Some(v) == [some |-> TRUE, val |-> v]

----------------------------------------------------------------------------
\* Inputs of the model.

Hello == Str(<<"H", "e", "l", "l", "o">>)
Long2000 == <<<<"x", MAX_MESSAGE_LEN>>>>
Long2001 == <<<<"x", MAX_MESSAGE_LEN + 1>>>>

\* the messages of the requests
Messages == {Hello, Long2000, Long2001}

\* what the provider may answer to one call: a 200 whose body holds the
\* nested text field (content), a 200 whose JSON body lacks it (shape), a
\* non-200 status (status), a failure of the connection or a body that is
\* not JSON (network)
RemoteOutcomes ==
    {[kind |-> "ok", content |-> c] : c \in {Str(<<" ", "o", "k">>), Str(<<" ">>)}}
    \cup {[kind |-> k, content |-> <<>>] : k \in {"shape", "status", "network"}}

TTLChoices == {SmallTTL, DEFAULT_CACHE_TTL}

----------------------------------------------------------------------------
\* The fixed literals of the source.

EMPTY_REPLY == Str(<<"<kichu bol, ami shunini :P>">>)
GREETING_REPLY == Str(<<"<hai! ami tomar chotto Jarvis>">>)
STATUS_REPLY == Str(<<"<bhalo achi, tumi bolo kemon acho?>">>)
TOKEN_HAI == Str(<<"<hai>">>)
TOKEN_HELLO == Str(<<"h", "e", "l", "l", "o">>)
TOKEN_HEY == Str(<<"h", "e", "y">>)
TOKEN_KEMON == Str(<<"<kemon>">>)
ECHO_HEAD == Str(<<"<tomar message oibhabe sajalam: [>">>)
ECHO_MID == Str(<<"<] - reverse korle hoye gelo: [>">>)
ECHO_TAIL == Str(<<"<] :D>">>)
MALFORMED_REPLY == Str(<<"<OpenAI theke odbhut response - pore check koro>">>)
CACHE_MARK == Str(<<"(", "c", "a", "c", "h", "e", ")", " ">>)

----------------------------------------------------------------------------
\* The expiring cache.

\* set_cache that keeps an entry the key already has (dict.setdefault)
set_cache_first(C, key, value, ttl, t) ==
    IF key \in DOMAIN C THEN C
    ELSE [k \in DOMAIN C \cup {key} |->
            IF k = key THEN [value |-> value, expiry |-> t + ttl] ELSE C[k]]

\* set_cache that stores the text with the cache marker prepended
set_cache_marked(C, key, value, ttl, t) ==
    [k \in DOMAIN C \cup {key} |->
        IF k = key THEN [value |-> Concat(CACHE_MARK, value),
                         expiry |-> t + ttl]
        ELSE C[k]]

\* CACHE[key] = (value, time.time() + ttl)
set_cache(C, key, value, ttl, t) ==
    [k \in DOMAIN C \cup {key} |->
        IF k = key THEN [value |-> value, expiry |-> t + ttl] ELSE C[k]]

\* get_cache with the expiry instant itself counted as expired
get_cache_ge(C, key, t) ==
    IF key \notin DOMAIN C THEN None
    ELSE IF t >= C[key].expiry THEN None
    ELSE Some(C[key].value)

\* what get_cache(key) returns at time t
get_cache(C, key, t) ==
    IF key \notin DOMAIN C THEN None
    ELSE IF t > C[key].expiry THEN None
    ELSE Some(C[key].value)

\* get_cache that leaves an expired entry in the dict
get_cache_keep(C, key, t) == C

\* get_cache that renews the expiry of the entry it returns
get_cache_slide(C, key, t) ==
    IF key \in DOMAIN C /\ t > C[key].expiry
    THEN [k \in DOMAIN C \ {key} |-> C[k]]
    ELSE [k \in DOMAIN C |->
            IF k = key THEN [C[k] EXCEPT !.expiry = t + CACHE_TTL] ELSE C[k]]

\* the dict after get_cache(key) at time t: an expired entry is deleted
get_cache_del(C, key, t) ==
    IF key \in DOMAIN C /\ t > C[key].expiry
    THEN [k \in DOMAIN C \ {key} |-> C[k]]
    ELSE C

----------------------------------------------------------------------------
\* The responders.

\* local_responder with the status rule tested before the greeting rule
local_responder_status_first(message) ==
    LET msg == Lower(Strip(message))
        rev == Reverse(message)
    IN  IF ~Truthy(msg) THEN EMPTY_REPLY
        ELSE IF Contains(msg, TOKEN_KEMON) THEN STATUS_REPLY
        ELSE IF Contains(msg, TOKEN_HAI) \/ Contains(msg, TOKEN_HELLO)
                \/ Contains(msg, TOKEN_HEY)
        THEN GREETING_REPLY
        ELSE Concat(ECHO_HEAD,
                 Concat(message, Concat(ECHO_MID, Concat(rev, ECHO_TAIL))))

local_responder(message) ==
    LET msg == Lower(Strip(message))
        rev == Reverse(message)
    IN  IF ~Truthy(msg) THEN EMPTY_REPLY
        ELSE IF Contains(msg, TOKEN_HAI) \/ Contains(msg, TOKEN_HELLO)
                \/ Contains(msg, TOKEN_HEY)
        THEN GREETING_REPLY
        ELSE IF Contains(msg, TOKEN_KEMON) THEN STATUS_REPLY
        ELSE Concat(ECHO_HEAD,
                 Concat(message, Concat(ECHO_MID, Concat(rev, ECHO_TAIL))))

\* openai_responder on the provider's answer o: it raises, or returns a str
openai_responder(o) ==
    IF o.kind \in {"status", "network"} THEN [raised |-> TRUE, val |-> <<>>]
    ELSE IF o.kind = "shape" THEN [raised |-> FALSE, val |-> MALFORMED_REPLY]
    ELSE [raised |-> FALSE, val |-> Strip(o.content)]

\* the remote tier entered without the pre-check
RemoteAlways == TRUE

\* the orchestrator's pre-check of the remote tier: if OPENAI_API_KEY
RemoteConfigured == OPENAI_API_KEY

\* the cached text as generate_response returns it
CacheReply(cached) == Concat(CACHE_MARK, cached)

\* the cache check of generate_response: if cached
CacheHit(cached) == cached.some /\ Truthy(cached.val)

\* the length check with >= in place of >
TooLongGe(message) == TextLen(message) >= MAX_MESSAGE_LEN

\* the length check of chat
TooLong(message) == TextLen(message) > MAX_MESSAGE_LEN

\* from_cache of chat: get_cache(req.message) is not None
FromCache(got) == got.some

----------------------------------------------------------------------------
\* One POST /chat request.  pc is the position of its coroutines:
\*   "idle"       not received yet
\*   "scheduled"  chat awaits wait_for; generate_response has not run yet
\*   "remote"     generate_response awaits the provider's answer
\*   "returned"   generate_response has returned; chat has not resumed yet
\*   "done"       the response is sent
\* message, deadline, remoteDeadline, res, status, reply and from_cache are
\* the program's values; the other fields record what the request did.

IdleRequest ==
    [pc |-> "idle", message |-> <<>>,
     deadline |-> 0,         \* when the timer of wait_for is due
     remoteDeadline |-> 0,   \* when the timer of the ClientSession is due
     resumeBy |-> 0,         \* the latest time the event loop resumes chat
     res |-> <<>>,           \* what generate_response returned
     status |-> 0,           \* the HTTP status of the response
     reply |-> <<>>,         \* "reply" of the response body
     from_cache |-> FALSE,   \* "from_cache" of the response body
     checked |-> FALSE,      \* the cache check has run
     live |-> FALSE,         \* the cache check found an unexpired entry
     hit |-> FALSE,          \* generate_response returned the cached text
     remoteCalls |-> 0,      \* invocations of openai_responder
     localCalls |-> 0,       \* invocations of local_responder
     outcome |-> "none",     \* how the remote invocation ended
     wrote |-> FALSE,        \* the request has called set_cache
     timedOut |-> FALSE,     \* wait_for raised TimeoutError
     follows |-> {}]         \* the requests done before this one arrived
                             \* whose entry for its message was unexpired

\* a coroutine that has not started: at is the statement it is about to
\* run, phase the function that called get_cache, item what CACHE.get
\* returned, value the text it is about to store
IdleFrame ==
    [at |-> "idle", phase |-> "none", key |-> <<>>, item |-> <<>>,
     value |-> <<>>]

\* no direct cache operation yet
NoOp == [op |-> "none", key |-> <<>>, result |-> None, at |-> 0, found |-> FALSE]

Init ==
    /\ now = 0
    /\ OPENAI_API_KEY \in BOOLEAN
    /\ CACHE_TTL \in TTLChoices
    /\ CACHE = <<>>
    /\ req = [r \in Requests |-> IdleRequest]
    /\ writer = <<>>
    /\ hist = NoOp
    /\ puts = <<>>
    /\ running = 0
    /\ frame = [r \in Requests |-> IdleFrame]

\* writer after request r has called set_cache(key, ...)
Wrote(key, r) == [k \in DOMAIN writer \cup {key} |-> IF k = key THEN r ELSE writer[k]]

\* the requests that are done, wrote the entry of message m, and whose entry
\* is unexpired
Unexpired(m) ==
    {q \in Requests : /\ req[q].pc = "done" /\ req[q].status = 200
                      /\ req[q].message = m /\ req[q].wrote
                      /\ m \in DOMAIN writer /\ writer[m] = q
                      /\ m \in DOMAIN CACHE /\ now <= CACHE[m].expiry}

\* the fallback tier storing its reply with a time to live of its own
FallbackOwnTTL(r, how) ==
    LET m == req[r].message
        resp == local_responder(m)
    IN  /\ CACHE' = set_cache(CACHE, m, resp, 0, now)
        /\ req' = [req EXCEPT ![r].pc = "returned", ![r].res = resp,
                              ![r].deadline = 0, ![r].remoteDeadline = 0,
                              ![r].resumeBy = now + MaxLag,
                              ![r].localCalls = @ + 1, ![r].outcome = how,
                              ![r].wrote = TRUE]
        /\ writer' = Wrote(m, r)

\* the fallback tier of generate_response (main.py:107-110), run by request
\* r whose remote invocation ended as `how`
Fallback(r, how) ==
    LET m == req[r].message
        resp == local_responder(m)
    IN  /\ CACHE' = set_cache(CACHE, m, resp, CACHE_TTL, now)
        /\ req' = [req EXCEPT ![r].pc = "returned", ![r].res = resp,
                              ![r].deadline = 0, ![r].remoteDeadline = 0,
                              ![r].resumeBy = now + MaxLag,
                              ![r].localCalls = @ + 1, ![r].outcome = how,
                              ![r].wrote = TRUE]
        /\ writer' = Wrote(m, r)

\* chat is called with message m: the length check, then wait_for schedules
\* generate_response and arms its timer
Chat(r, m) ==
    /\ req[r].pc = "idle"
    /\ \A q \in Requests : q < r => req[q].pc # "idle"
    /\ IF TooLong(m)
       THEN req' = [req EXCEPT ![r].pc = "done", ![r].message = m,
                               ![r].status = 400]
       ELSE req' = [req EXCEPT ![r].pc = "scheduled", ![r].message = m,
                               ![r].deadline = now + REQUEST_TIMEOUT,
                               ![r].follows = Unexpired(m)]
    /\ UNCHANGED <<now, OPENAI_API_KEY, CACHE_TTL, CACHE, writer, hist, puts, running, frame>>

\* generate_response runs from its start to its first suspension or return
Generate(r) ==
    /\ req[r].pc = "scheduled"
    /\ LET m == req[r].message
           cached == get_cache(CACHE, m, now)
           C1 == get_cache_del(CACHE, m, now)
           seen == [req EXCEPT ![r].checked = TRUE, ![r].live = cached.some]
       IN  IF CacheHit(cached)
           THEN /\ CACHE' = C1
                /\ req' = [seen EXCEPT ![r].pc = "returned", ![r].hit = TRUE,
                                       ![r].deadline = 0,
                                       ![r].resumeBy = now + MaxLag,
                                       ![r].res = CacheReply(cached.val)]
                /\ UNCHANGED writer
           ELSE IF RemoteConfigured
           THEN /\ CACHE' = C1
                /\ req' = [seen EXCEPT ![r].pc = "remote",
                                       ![r].remoteCalls = @ + 1,
                                       ![r].remoteDeadline = now + REMOTE_TIMEOUT]
                /\ UNCHANGED writer
           ELSE LET resp == local_responder(m)
                IN  /\ CACHE' = set_cache(C1, m, resp, CACHE_TTL, now)
                    /\ req' = [seen EXCEPT ![r].pc = "returned", ![r].res = resp,
                                           ![r].deadline = 0,
                                           ![r].resumeBy = now + MaxLag,
                                           ![r].localCalls = @ + 1,
                                           ![r].wrote = TRUE]
                    /\ writer' = Wrote(m, r)
    /\ UNCHANGED <<now, OPENAI_API_KEY, CACHE_TTL, hist, puts, running, frame>>

\* the provider answers o: openai_responder returns or raises, and
\* generate_response runs to its return
RemoteAnswer(r, o) ==
    /\ req[r].pc = "remote"
    /\ LET m == req[r].message
           got == openai_responder(o)
       IN  IF got.raised
           THEN Fallback(r, "raised")
           ELSE /\ CACHE' = set_cache(CACHE, m, got.val, CACHE_TTL, now)
                /\ req' = [req EXCEPT ![r].pc = "returned", ![r].res = got.val,
                                      ![r].deadline = 0, ![r].remoteDeadline = 0,
                                      ![r].resumeBy = now + MaxLag,
                                      ![r].outcome = o.kind,
                                      ![r].wrote = TRUE]
                /\ writer' = Wrote(m, r)
    /\ UNCHANGED <<now, OPENAI_API_KEY, CACHE_TTL, hist, puts, running, frame>>

\* the provider timeout not caught by generate_response: it reaches the
\* except asyncio.TimeoutError clause of chat
RemoteTimeoutUncaught(r) ==
    /\ req[r].pc = "remote"
    /\ now >= req[r].remoteDeadline
    /\ req' = [req EXCEPT ![r].pc = "done", ![r].status = 504,
                          ![r].deadline = 0, ![r].remoteDeadline = 0,
                          ![r].outcome = "timeout"]
    /\ UNCHANGED <<now, OPENAI_API_KEY, CACHE_TTL, CACHE, writer, hist, puts, running, frame>>

\* the ClientTimeout(total=10) timer fires: asyncio.TimeoutError is raised in
\* openai_responder and caught by generate_response
RemoteTimeout(r) ==
    /\ req[r].pc = "remote"
    /\ now >= req[r].remoteDeadline
    /\ Fallback(r, "timeout")
    /\ UNCHANGED <<now, OPENAI_API_KEY, CACHE_TTL, hist, puts, running, frame>>

\* the cancellation caught by the except Exception clause of
\* generate_response: the fallback tier runs and stores its reply before
\* chat raises HTTPException(504)
DeadlineCaught(r) ==
    /\ req[r].pc \in {"scheduled", "remote"}
    /\ now >= req[r].deadline
    /\ CACHE' = set_cache(CACHE, req[r].message,
                          local_responder(req[r].message), CACHE_TTL, now)
    /\ req' = [req EXCEPT ![r].pc = "done", ![r].status = 504,
                          ![r].deadline = 0, ![r].remoteDeadline = 0,
                          ![r].localCalls = @ + 1, ![r].wrote = TRUE,
                          ![r].timedOut = TRUE]
    /\ writer' = Wrote(req[r].message, r)
    /\ UNCHANGED <<now, OPENAI_API_KEY, CACHE_TTL, hist, puts, running, frame>>

\* the timeout of wait_for handled by the except Exception clause of chat
DeadlineAsServerError(r) ==
    /\ req[r].pc \in {"scheduled", "remote"}
    /\ now >= req[r].deadline
    /\ req' = [req EXCEPT ![r].pc = "done", ![r].status = 500,
                          ![r].deadline = 0, ![r].remoteDeadline = 0,
                          ![r].timedOut = TRUE]
    /\ UNCHANGED <<now, OPENAI_API_KEY, CACHE_TTL, CACHE, writer, hist, puts, running, frame>>

\* the timer of wait_for fires before generate_response has returned: the
\* task is cancelled and chat raises HTTPException(504)
Deadline(r) ==
    /\ req[r].pc \in {"scheduled", "remote"}
    /\ now >= req[r].deadline
    /\ req' = [req EXCEPT ![r].pc = "done", ![r].status = 504,
                          ![r].deadline = 0, ![r].remoteDeadline = 0,
                          ![r].timedOut = TRUE]
    /\ UNCHANGED <<now, OPENAI_API_KEY, CACHE_TTL, CACHE, writer, hist, puts, running, frame>>

\* chat resumes with the result of generate_response and builds the body
ChatReturn(r) ==
    /\ req[r].pc = "returned"
    /\ LET m == req[r].message
           got == get_cache(CACHE, m, now)
       IN  /\ CACHE' = get_cache_del(CACHE, m, now)
           /\ req' = [req EXCEPT ![r].pc = "done", ![r].status = 200,
                                 ![r].reply = req[r].res, ![r].resumeBy = 0,
                                 ![r].from_cache = FromCache(got)]
    /\ UNCHANGED <<now, OPENAI_API_KEY, CACHE_TTL, writer, hist, puts, running, frame>>

\* only the timer of wait_for is served when due
TimerDueOuter(r) ==
    req[r].pc \in {"scheduled", "remote"} /\ now >= req[r].deadline

\* a timer that is due fires before time passes further
TimerDue(r) ==
    \/ req[r].pc = "remote" /\ now >= req[r].remoteDeadline
    \/ req[r].pc \in {"scheduled", "remote"} /\ now >= req[r].deadline

\* the event loop runs a coroutine that is ready within MaxLag time units
LoopDue(r) ==
    \/ req[r].pc = "scheduled"
          /\ now >= req[r].deadline - REQUEST_TIMEOUT + MaxLag
    \/ req[r].pc = "returned" /\ now >= req[r].resumeBy

Tick ==
    /\ now < MaxTime
    /\ \A r \in Requests : ~TimerDue(r) /\ ~LoopDue(r)
    /\ now' = now + 1
    /\ UNCHANGED <<OPENAI_API_KEY, CACHE_TTL, CACHE, req, writer, hist, puts, running, frame>>

Next ==
    \/ \E r \in Requests, m \in Messages : Chat(r, m)
    \/ \E r \in Requests : Generate(r)
    \/ \E r \in Requests, o \in RemoteOutcomes : RemoteAnswer(r, o)
    \/ \E r \in Requests : RemoteTimeout(r)
    \/ \E r \in Requests : Deadline(r)
    \/ \E r \in Requests : ChatReturn(r)
    \/ Tick

Spec == Init /\ [][Next]_vars

----------------------------------------------------------------------------
\* The expiring cache on its own: set_cache and get_cache called directly
\* with any key, value and ttl, time passing in between.

CacheKeys == {Str(<<"a">>), Str(<<"b">>)}
CacheValues == {<<>>, Str(<<"v">>)}
PutTTLs == 0..MaxPutTTL

\* set_cache(k, v, ttl)
CachePut(k, v, ttl) ==
    /\ CACHE' = set_cache(CACHE, k, v, ttl, now)
    /\ hist' = [op |-> "put", key |-> k, result |-> None, at |-> now,
                found |-> FALSE]
    /\ puts' = [j \in DOMAIN puts \cup {k} |->
                  IF j = k THEN [value |-> v, at |-> now, ttl |-> ttl,
                                 over |-> k \in DOMAIN CACHE]
                  ELSE puts[j]]
    /\ UNCHANGED <<now, OPENAI_API_KEY, CACHE_TTL, req, writer, running, frame>>

\* get_cache(k)
CacheGet(k) ==
    /\ CACHE' = get_cache_del(CACHE, k, now)
    /\ hist' = [op |-> "get", key |-> k, result |-> get_cache(CACHE, k, now),
                at |-> now, found |-> k \in DOMAIN CACHE]
    /\ UNCHANGED <<now, OPENAI_API_KEY, CACHE_TTL, req, writer, puts, running, frame>>

CacheTick ==
    /\ now < MaxCacheTime
    /\ now' = now + 1
    /\ UNCHANGED <<OPENAI_API_KEY, CACHE_TTL, CACHE, req, writer, hist, puts, running, frame>>

NextCache ==
    \/ \E k \in CacheKeys, v \in CacheValues, ttl \in PutTTLs : CachePut(k, v, ttl)
    \/ \E k \in CacheKeys : CacheGet(k)
    \/ CacheTick

InitCache ==
    /\ now = 0
    /\ OPENAI_API_KEY = FALSE
    /\ CACHE_TTL = DEFAULT_CACHE_TTL
    /\ CACHE = <<>>
    /\ req = [r \in Requests |-> IdleRequest]
    /\ writer = <<>>
    /\ hist = NoOp
    /\ puts = <<>>
    /\ running = 0
    /\ frame = [r \in Requests |-> IdleFrame]

SpecCache == InitCache /\ [][NextCache]_vars

----------------------------------------------------------------------------
\* Properties of the expiring cache (SpecCache).

\* C9: set_cache(k, v, ttl) with ttl > 0 followed by get_cache(k) at a time
\* now <= write time + ttl returns v, for every v (the empty string too) and
\* whatever entry k held before the put.
C9_PutThenGet ==
    \A k \in CacheKeys :
        (/\ hist.op = "get" /\ hist.key = k
         /\ k \in DOMAIN puts
         /\ puts[k].ttl > 0
         /\ hist.at <= puts[k].at + puts[k].ttl)
        => hist.result = Some(puts[k].value)

\* C9's case: a put of the empty string over an older entry, read back at
\* the last instant of its life
C9_Witness ==
    \E k \in CacheKeys :
        /\ hist.op = "get" /\ hist.key = k
        /\ k \in DOMAIN puts
        /\ puts[k].ttl > 0 /\ puts[k].over /\ puts[k].value = <<>>
        /\ hist.at = puts[k].at + puts[k].ttl
        /\ hist.result = Some(<<>>)

\* C10: a get_cache(k) at a time now > write time + ttl of the last put on k
\* returns absent, leaves no entry of k in the map and changes no other
\* entry.
C10_ExpiredGetRemoves ==
    [][\A k \in CacheKeys :
          (/\ hist' # hist
           /\ hist'.op = "get" /\ hist'.key = k
           /\ k \in DOMAIN puts
           /\ hist'.at > puts[k].at + puts[k].ttl)
          => (/\ hist'.result = None
              /\ DOMAIN CACHE' = DOMAIN CACHE \ {k}
              /\ \A j \in DOMAIN CACHE' : CACHE'[j] = CACHE[j])]_vars

\* C10's case: the first get after the expiry found the entry and removed
\* it, while another key keeps its entry
C10_Witness ==
    \E k \in CacheKeys :
        /\ hist.op = "get" /\ hist.key = k /\ hist.found
        /\ k \in DOMAIN puts
        /\ hist.at > puts[k].at + puts[k].ttl
        /\ hist.result = None
        /\ k \notin DOMAIN CACHE
        /\ \E j \in CacheKeys \ {k} : j \in DOMAIN CACHE

----------------------------------------------------------------------------
\* Properties of POST /chat (Spec).

Done(r) == req[r].pc = "done"
Replied(r) == Done(r) /\ req[r].status = 200

\* C1: a successful reply has from_cache = TRUE if and only if the reply was
\* retrieved by the cache check of the orchestrator.
C1_FromCacheIffHit ==
    \A r \in Requests : Replied(r) => (req[r].from_cache <=> req[r].hit)

\* C2: a request for m that arrives after a request for m has completed and
\* before the entry that request wrote has expired gets the same reply text.
C2_RepeatSameReply ==
    \A r \in Requests : \A q \in req[r].follows :
        Replied(r) => req[r].reply = req[q].reply

\* C3: a request whose remote invocation failed (the provider's answer made
\* openai_responder raise, or the provider's timeout fired) ends with a
\* successful reply that is exactly local_responder(message), never with an
\* error status, and the step that handles the failure stores that text in
\* the cache under the message with the default TTL.
C3_FailureReplies ==
    \A r \in Requests :
        req[r].outcome \in {"raised", "timeout"}
        => /\ req[r].pc \in {"returned", "done"}
           /\ req[r].checked /\ ~req[r].hit
           /\ req[r].res = local_responder(req[r].message)
           /\ Done(r) => /\ req[r].status = 200
                         /\ req[r].reply = local_responder(req[r].message)

C3_FailureCaches ==
    \A r \in Requests :
        (req[r].pc = "remote" /\ req'[r].outcome \in {"raised", "timeout"})
        => /\ req[r].message \in DOMAIN CACHE'
           /\ CACHE'[req[r].message] =
                 [value |-> local_responder(req[r].message),
                  expiry |-> now + CACHE_TTL]

\* C3, both parts: the reply of a request whose remote invocation failed,
\* and the cache write of the step that handles the failure
C3_RemoteFailureFallsBack == []C3_FailureReplies /\ [][C3_FailureCaches]_vars

\* C3's case: the provider never answered, the request ended with the
\* local reply, and the cache holds it
C3_Witness ==
    \E r \in Requests :
        /\ Replied(r) /\ req[r].outcome = "timeout"
        /\ req[r].reply = GREETING_REPLY
        /\ req[r].message \in DOMAIN CACHE
        /\ CACHE[req[r].message].value = GREETING_REPLY

\* C4: when the provider answers 200 with a body that lacks the nested text
\* field, the orchestrator routes to the local responder: the reply and the
\* cached value are local_responder(message).
C4_MalformedFallsBack ==
    \A r \in Requests :
        (req[r].outcome = "shape" /\ req[r].pc \in {"returned", "done"})
        => /\ req[r].localCalls = 1
           /\ req[r].res = local_responder(req[r].message)

\* C5: a request whose cache check finds an entry that is present and not
\* expired, whatever its value, invokes neither responder and ends in the
\* cache-hit state.
C5_LiveEntryServed ==
    \A r \in Requests :
        req[r].live
        => req[r].hit /\ req[r].remoteCalls = 0 /\ req[r].localCalls = 0

\* C6: with no credential configured the remote responder is never invoked,
\* and every request that misses the cache returns local_responder(message).
C6_NoKeyLocalOnly ==
    ~OPENAI_API_KEY
    => \A r \in Requests :
          /\ req[r].remoteCalls = 0 /\ req[r].outcome = "none"
          /\ req[r].pc # "remote"
          /\ (req[r].checked /\ ~req[r].hit)
             => /\ req[r].pc \in {"returned", "done"}
                /\ req[r].localCalls = 1
                /\ req[r].res = local_responder(req[r].message)
                /\ Done(r) => /\ req[r].status = 200
                              /\ req[r].reply = local_responder(req[r].message)

\* C6's case: two requests for one message both missed the cache (the entry
\* of the first had expired) and got the same local reply
C6_Witness ==
    /\ ~OPENAI_API_KEY
    /\ \E r, q \in Requests :
          /\ r # q /\ Replied(r) /\ Replied(q)
          /\ req[r].message = req[q].message
          /\ ~req[r].hit /\ ~req[q].hit
          /\ req[r].reply = GREETING_REPLY /\ req[q].reply = GREETING_REPLY

\* C7: a request whose orchestrator has not returned when the outer deadline
\* fires ends with status 504 and no reply, whatever the cache holds, and no
\* orchestrator stays pending past its deadline.
C7_DeadlineIs504 ==
    \A r \in Requests :
        /\ req[r].timedOut
           => /\ Done(r) /\ req[r].status = 504
              /\ req[r].reply = <<>> /\ ~req[r].from_cache
        /\ req[r].status = 200 => ~req[r].timedOut
        /\ req[r].pc \in {"scheduled", "remote"} => now <= req[r].deadline

\* C7's case: the deadline fired while the cache held an unexpired value for
\* the message
C7_Witness ==
    \E r \in Requests :
        /\ req[r].timedOut /\ req[r].status = 504
        /\ req[r].message \in DOMAIN CACHE
        /\ now <= CACHE[req[r].message].expiry

\* C8: a message of exactly 2000 characters is accepted and its orchestrator
\* scheduled; a message of more than 2000 characters is answered 400 in the
\* same step, without any cache read or write and without any responder.
C8_Received ==
    \A r \in Requests :
        (req[r].pc = "idle" /\ req'[r].pc # "idle")
        => IF TextLen(req'[r].message) > MAX_MESSAGE_LEN
           THEN /\ req'[r].pc = "done" /\ req'[r].status = 400
                /\ CACHE' = CACHE
           ELSE /\ req'[r].pc = "scheduled"
                /\ req'[r].deadline = now + REQUEST_TIMEOUT

C8_Rejected ==
    \A r \in Requests :
        /\ req[r].status = 400
           => /\ TextLen(req[r].message) > MAX_MESSAGE_LEN
              /\ ~req[r].checked /\ ~req[r].wrote
              /\ req[r].remoteCalls = 0 /\ req[r].localCalls = 0
        /\ (Done(r) /\ TextLen(req[r].message) <= MAX_MESSAGE_LEN)
           => req[r].status \in {200, 504}

\* C8, both parts: what a rejected request never did, and the step that
\* receives a request
C8_LengthLimit == []C8_Rejected /\ [][C8_Received]_vars

\* C8's case: a message of 2001 characters was rejected while the cache held
\* an entry, and a message of 2000 characters was answered
C8_Witness ==
    /\ \E r \in Requests :
          /\ req[r].status = 400
          /\ TextLen(req[r].message) = MAX_MESSAGE_LEN + 1
    /\ \E q \in Requests :
          /\ Replied(q) /\ TextLen(req[q].message) = MAX_MESSAGE_LEN
          /\ req[q].message \in DOMAIN CACHE

----------------------------------------------------------------------------
\* The local responder on its own: local_responder called with any message
\* of at most MaxMsgLen characters over a small alphabet, and with "Hello"
\* in three letter cases.

LocalAlphabet == {" ", "h", "H", "e", "y", "a", "<hai>", "<kemon>"}

LocalInputs ==
    {Str(c) : c \in UNION {[1..n -> LocalAlphabet] : n \in 0..MaxMsgLen}}
    \cup {Hello, Str(<<"h", "e", "l", "l", "o">>),
          Str(<<"H", "E", "L", "L", "O">>),
          Str(<<"H", "E", "L", "L", "O", " ", "<kemon>">>)}

InitLocal ==
    /\ now = 0
    /\ OPENAI_API_KEY = FALSE
    /\ CACHE_TTL = DEFAULT_CACHE_TTL
    /\ CACHE = <<>>
    /\ req = [r \in Requests |-> IdleRequest]
    /\ writer = <<>>
    /\ \E m \in LocalInputs :
          hist = [op |-> "message", key |-> m, result |-> None, at |-> 0,
                  found |-> FALSE]
    /\ puts = <<>>
    /\ running = 0
    /\ frame = [r \in Requests |-> IdleFrame]

\* await local_responder(message)
LocalCall ==
    /\ hist.op = "message"
    /\ hist' = [hist EXCEPT !.op = "local",
                            !.result = Some(local_responder(hist.key))]
    /\ UNCHANGED <<now, OPENAI_API_KEY, CACHE_TTL, CACHE, req, writer, puts, running, frame>>

NextLocal == LocalCall

SpecLocal == InitLocal /\ [][NextLocal]_vars

----------------------------------------------------------------------------
\* Properties of the local responder (SpecLocal), stated on the characters
\* of the texts.

RECURSIVE Chars(_)
Chars(s) ==
    IF s = <<>> THEN <<>>
    ELSE [i \in 1..s[1][2] |-> s[1][1]] \o Chars(Tail(s))

Fold(c) == IF c \in {"H", "E", "L", "O", "Y"} THEN LowerChar(c) ELSE c

Blank(cs) == \A i \in 1..Len(cs) : cs[i] \in {" ", "\n", "\t"}

\* the characters ts occur in cs, letter case ignored
Occurs(cs, ts) ==
    \E i \in 0..(Len(cs) - Len(ts)) :
        \A j \in 1..Len(ts) : Fold(cs[i + j]) = ts[j]

Greets(cs) ==
    \/ Occurs(cs, <<"<hai>">>)
    \/ Occurs(cs, <<"h", "e", "l", "l", "o">>)
    \/ Occurs(cs, <<"h", "e", "y">>)

Backwards(cs) == [i \in 1..Len(cs) |-> cs[Len(cs) + 1 - i]]

\* C11: local_responder answers every message, by the first rule that
\* applies: blank message -> the fixed "didn't hear" reply; a greeting token
\* in any letter case -> the fixed greeting reply, also with the "how are
\* you" token present; the "how are you" token -> the fixed status reply;
\* otherwise the template filled with the message and its reversal.
C11_LocalRules ==
    hist.op = "local"
    => LET cs == Chars(hist.key)
           out == hist.result.val
       IN  /\ hist.result.some
           /\ IF Blank(cs) THEN out = EMPTY_REPLY
              ELSE IF Greets(cs) THEN out = GREETING_REPLY
              ELSE IF Occurs(cs, <<"<kemon>">>) THEN out = STATUS_REPLY
              ELSE Chars(out) = Chars(ECHO_HEAD) \o cs \o Chars(ECHO_MID)
                                  \o Backwards(cs) \o Chars(ECHO_TAIL)

\* C11's case: a greeting in mixed letter case together with the "how are
\* you" token got the greeting reply
C11_Witness ==
    /\ hist.op = "local"
    /\ hist.key = Str(<<"H", "e", "y", "<kemon>">>)
    /\ hist.result = Some(GREETING_REPLY)

----------------------------------------------------------------------------
\* Properties of concurrent requests (Spec).

\* request r calls set_cache in this step
Writes(r) ==
    /\ req[r].pc \in {"scheduled", "remote"}
    /\ req'[r].pc = "returned" /\ ~req'[r].hit

\* C12: requests for one message are not de-duplicated, and the last write
\* wins: the entry of a message is the value of the request that wrote it
\* last, with the expiry of that write; a write replaces the entry whatever
\* it held, and an entry leaves the map only once it has expired.
C12_EntryOfLastWriter ==
    \A m \in DOMAIN CACHE :
        /\ m \in DOMAIN writer
        /\ req[writer[m]].message = m
        /\ req[writer[m]].wrote
        /\ CACHE[m].value = req[writer[m]].res

C12_WriteReplaces ==
    /\ \A r \in Requests :
          Writes(r)
          => /\ req[r].message \in DOMAIN CACHE'
             /\ CACHE'[req[r].message] =
                   [value |-> req'[r].res, expiry |-> now + CACHE_TTL]
             /\ writer'[req[r].message] = r
    /\ \A m \in DOMAIN CACHE :
          /\ m \notin DOMAIN CACHE' => now > CACHE[m].expiry
          /\ (m \in DOMAIN CACHE' /\ CACHE'[m] # CACHE[m])
             => \E r \in Requests : Writes(r) /\ req[r].message = m

\* C12, both parts
C12_LastWriteWins == []C12_EntryOfLastWriter /\ [][C12_WriteReplaces]_vars

\* C12's case: two requests for one message both missed the cache, both
\* invoked the remote responder and both wrote (no entry expires this soon, so
\* both cache checks ran before either write); the entry is the later
\* write's, which differs from the earlier one
C12_Witness ==
    /\ CACHE_TTL = DEFAULT_CACHE_TTL
    /\ \E r, q \in Requests :
          /\ r # q /\ Replied(r) /\ Replied(q)
          /\ req[r].message = req[q].message
          /\ ~req[r].live /\ ~req[q].live
          /\ req[r].remoteCalls = 1 /\ req[q].remoteCalls = 1
          /\ req[r].outcome = "ok" /\ req[q].outcome = "shape"
          /\ writer[req[r].message] = q
          /\ DOMAIN CACHE = {req[r].message}
          /\ CACHE[req[r].message].value = req[q].res
          /\ req[q].res # req[r].res

\* ------------------------------------------------------------------------
\* The coroutines statement by statement (SpecSteps)
\*
\* chat and generate_response run on one event loop: a coroutine keeps
\* the loop from one await that really suspends to the next.  Here
\* get_cache is three steps (CACHE.get, the tests, del) and the loop's
\* choice of coroutine is explicit in running.

StepMessages == {Str(<<"a">>), Str(<<"b">>)}

\* a scheduler that may switch coroutines after every statement
SuspendsAlways(at) == TRUE

\* the statements a coroutine reaches by giving the loop away: the
\* network await, the end of the task, the end of chat
Suspends(at) == at \in {"remote", "returned", "done", "KeyError"}

\* the coroutine that has the loop once r has moved to statement at
Holds(r, at) == IF Suspends(at) THEN 0 ELSE r

\* where the caller of get_cache goes with its result
AfterGet(r, result) ==
    IF frame[r].phase = "chat" THEN "done"
    ELSE IF CacheHit(result) THEN "returned"
    ELSE IF RemoteConfigured THEN "remote"
    ELSE "local"

Goes(r, at, item, value) ==
    /\ frame' = [frame EXCEPT ![r].at = at, ![r].item = item,
                              ![r].value = value]
    /\ running' = Holds(r, at)

\* the task of generate_response(k) gets its first turn
StepStart(r, k) ==
    /\ running \in {0, r}
    /\ frame[r].at \in {"idle", "done", "KeyError"}
    /\ frame' = [frame EXCEPT ![r] = [at |-> "lookup", phase |-> "generate",
                                      key |-> k, item |-> <<>>,
                                      value |-> <<>>]]
    /\ running' = Holds(r, "lookup")
    /\ UNCHANGED <<now, OPENAI_API_KEY, CACHE_TTL, CACHE, req, writer, hist,
                   puts>>

\* item = CACHE.get(key)
StepLookup(r) ==
    /\ running \in {0, r}
    /\ frame[r].at = "lookup"
    /\ Goes(r, "test",
            IF frame[r].key \in DOMAIN CACHE THEN <<CACHE[frame[r].key]>>
            ELSE <<>>, <<>>)
    /\ UNCHANGED <<now, OPENAI_API_KEY, CACHE_TTL, CACHE, req, writer, hist,
                   puts>>

\* if not item / value, expiry = item / if time.time() > expiry
StepTest(r) ==
    /\ running \in {0, r}
    /\ frame[r].at = "test"
    /\ IF frame[r].item = <<>> THEN Goes(r, AfterGet(r, None), <<>>, <<>>)
       ELSE IF now > frame[r].item[1].expiry
            THEN Goes(r, "delete", frame[r].item, <<>>)
       ELSE Goes(r, AfterGet(r, Some(frame[r].item[1].value)), <<>>, <<>>)
    /\ UNCHANGED <<now, OPENAI_API_KEY, CACHE_TTL, CACHE, req, writer, hist,
                   puts>>

\* del CACHE[key]: KeyError when the key is no longer in the dict
StepDelete(r) ==
    /\ running \in {0, r}
    /\ frame[r].at = "delete"
    /\ IF frame[r].key \in DOMAIN CACHE
       THEN /\ CACHE' = [k \in DOMAIN CACHE \ {frame[r].key} |-> CACHE[k]]
            /\ Goes(r, AfterGet(r, None), <<>>, <<>>)
       ELSE /\ CACHE' = CACHE
            /\ Goes(r, "KeyError", <<>>, <<>>)
    /\ UNCHANGED <<now, OPENAI_API_KEY, CACHE_TTL, req, writer, hist, puts>>

\* the network await ends: a reply, or a failure and the local reply
StepRemote(r, o) ==
    /\ running \in {0, r}
    /\ frame[r].at = "remote"
    /\ Goes(r, "put", <<>>,
            IF o.kind \in {"ok", "shape"} THEN openai_responder(o)
            ELSE local_responder(frame[r].key))
    /\ UNCHANGED <<now, OPENAI_API_KEY, CACHE_TTL, CACHE, req, writer, hist,
                   puts>>

\* resp = await local_responder(message), which never suspends
StepLocal(r) ==
    /\ running \in {0, r}
    /\ frame[r].at = "local"
    /\ Goes(r, "put", <<>>, local_responder(frame[r].key))
    /\ UNCHANGED <<now, OPENAI_API_KEY, CACHE_TTL, CACHE, req, writer, hist,
                   puts>>

\* set_cache(message, resp) and the return of the task
StepPut(r) ==
    /\ running \in {0, r}
    /\ frame[r].at = "put"
    /\ CACHE' = set_cache(CACHE, frame[r].key, frame[r].value, CACHE_TTL, now)
    /\ puts' = [j \in DOMAIN puts \cup {frame[r].key} |->
                  IF j = frame[r].key
                  THEN [value |-> frame[r].value, at |-> now,
                        ttl |-> CACHE_TTL,
                        over |-> frame[r].key \in DOMAIN CACHE]
                  ELSE puts[j]]
    /\ Goes(r, "returned", <<>>, <<>>)
    /\ UNCHANGED <<now, OPENAI_API_KEY, CACHE_TTL, req, writer, hist>>

\* chat resumes after wait_for and calls get_cache(req.message)
StepResume(r) ==
    /\ running \in {0, r}
    /\ frame[r].at = "returned"
    /\ frame' = [frame EXCEPT ![r].at = "lookup", ![r].phase = "chat"]
    /\ running' = Holds(r, "lookup")
    /\ UNCHANGED <<now, OPENAI_API_KEY, CACHE_TTL, CACHE, req, writer, hist,
                   puts>>

\* the clock advances, also while a coroutine has the loop
StepTick ==
    /\ now < MaxCacheTime
    /\ now' = now + 1
    /\ UNCHANGED <<OPENAI_API_KEY, CACHE_TTL, CACHE, req, writer, hist, puts,
                   running, frame>>

NextSteps ==
    \/ \E r \in Requests, k \in StepMessages : StepStart(r, k)
    \/ \E r \in Requests : StepLookup(r)
    \/ \E r \in Requests : StepTest(r)
    \/ \E r \in Requests : StepDelete(r)
    \/ \E r \in Requests, o \in RemoteOutcomes : StepRemote(r, o)
    \/ \E r \in Requests : StepLocal(r)
    \/ \E r \in Requests : StepPut(r)
    \/ \E r \in Requests : StepResume(r)
    \/ StepTick

InitSteps ==
    /\ now = 0
    /\ OPENAI_API_KEY \in BOOLEAN
    /\ CACHE_TTL \in TTLChoices
    /\ CACHE = <<>>
    /\ req = [r \in Requests |-> IdleRequest]
    /\ writer = <<>>
    /\ hist = NoOp
    /\ puts = <<>>
    /\ running = 0
    /\ frame = [r \in Requests |-> IdleFrame]

SpecSteps == InitSteps /\ [][NextSteps]_vars

\* the item a coroutine holds is what the dict holds for its key
Current(r) ==
    frame[r].item = IF frame[r].key \in DOMAIN CACHE
                    THEN <<CACHE[frame[r].key]>> ELSE <<>>

\* C13: get_cache and set_cache run as one indivisible step under any
\* interleaving of requests: between CACHE.get, the expiry test and
\* del no other coroutine has the loop and the dict still holds the
\* item that was read, so del never raises KeyError; and every item a
\* request reads has the value and the expiry of one and the same
\* set_cache, the last one on its key.
C13_CacheOpsIndivisible ==
    \A r \in Requests :
        /\ frame[r].at # "KeyError"
        /\ frame[r].at \in {"test", "delete", "local", "put"} =>
              /\ running = r
              /\ \A q \in Requests \ {r} : Suspends(frame[q].at)
                                             \/ frame[q].at = "idle"
        /\ frame[r].at \in {"test", "delete"} => Current(r)
        /\ frame[r].item # <<>> =>
              /\ frame[r].key \in DOMAIN puts
              /\ frame[r].item[1] =
                    [value |-> puts[frame[r].key].value,
                     expiry |-> puts[frame[r].key].at
                                + puts[frame[r].key].ttl]

\* one request is about to delete an expired entry while another
\* request for the same message waits between its own cache operations
C13_Witness ==
    \E r, q \in Requests :
        /\ r # q
        /\ frame[r].key = frame[q].key
        /\ frame[r].at = "delete"
        /\ now > frame[r].item[1].expiry
        /\ frame[q].at \in {"remote", "returned"}

\* ------------------------------------------------------------------------
\* Properties of the two deadlines (Spec)

\* the remote call of r began when the request arrived: nothing but the
\* remote call has taken time
Prompt(r) ==
    /\ req[r].pc = "remote"
    /\ req[r].remoteDeadline - REMOTE_TIMEOUT
         = req[r].deadline - REQUEST_TIMEOUT

\* while such a call is in flight its own timer is due strictly before
\* the timer of wait_for, and time does not pass beyond it
C14_InnerBeforeOuter ==
    \A r \in Requests :
        /\ Prompt(r) => /\ req[r].remoteDeadline < req[r].deadline
                        /\ now <= req[r].remoteDeadline
        /\ (req[r].pc \in {"returned", "done"} /\ req[r].outcome = "timeout")
              => /\ ~req[r].timedOut
                 /\ req[r].res = local_responder(req[r].message)
                 /\ req[r].localCalls = 1 /\ req[r].wrote

\* such a call ends by an answer or, at its own deadline, as a remote
\* failure that returns the local reply; a returned request ends 200
C14_TimeoutFallsBack ==
    \A r \in Requests :
        /\ (Prompt(r) /\ req'[r].pc # "remote") =>
              /\ req'[r].pc = "returned"
              /\ ~req'[r].timedOut
              /\ req'[r].outcome \in {"ok", "shape", "raised", "timeout"}
              /\ req'[r].outcome = "timeout" =>
                    /\ now = req[r].remoteDeadline
                    /\ req'[r].res = local_responder(req[r].message)
        /\ (req[r].pc = "returned" /\ req'[r].pc # "returned") =>
              /\ req'[r].pc = "done"
              /\ req'[r].status = 200
              /\ req'[r].reply = req[r].res

\* C14: the inner remote deadline fires before the outer request
\* deadline: a request whose only slow step is a remote call that never
\* answers has that call fail by its own timeout, the failure is handled
\* in generate_response, and the request ends 200 with the reply of
\* local_responder, not 504.
C14_RemoteDeadlineFirst ==
    []C14_InnerBeforeOuter /\ [][C14_TimeoutFallsBack]_vars

\* at the remote deadline of a call made at time 0 the request is done
\* with the local reply
C14_Witness ==
    \E r \in Requests :
        /\ now = REMOTE_TIMEOUT
        /\ Done(r) /\ req[r].outcome = "timeout"
        /\ req[r].status = 200
        /\ req[r].reply = local_responder(req[r].message)
        /\ req[r].remoteCalls = 1

\* ------------------------------------------------------------------------
\* Properties of the time to live (Spec)

\* the step stores the reply of the remote tier for request r
WritesRemote(r) ==
    Writes(r) /\ req'[r].outcome \in {"ok", "shape"} /\ req'[r].localCalls = 0

\* the step stores the reply of the local tier for request r
WritesLocal(r) == Writes(r) /\ req'[r].localCalls = 1

\* every entry was written at some time up to now with the configured
\* time to live, which is one of the configurations and never changes
C15_EntryTTL ==
    /\ CACHE_TTL \in TTLChoices
    /\ \A m \in DOMAIN CACHE : CACHE[m].expiry - CACHE_TTL \in 0..now

\* a write of either tier sets the expiry to now + CACHE_TTL, and an
\* entry is new or different only by such a write
C15_TierTTL ==
    /\ CACHE_TTL' = CACHE_TTL
    /\ \A r \in Requests :
          /\ Writes(r) => WritesRemote(r) \/ WritesLocal(r)
          /\ WritesRemote(r) =>
                CACHE'[req[r].message].expiry = now + CACHE_TTL
          /\ WritesLocal(r) =>
                CACHE'[req[r].message].expiry = now + CACHE_TTL
    /\ \A m \in DOMAIN CACHE' :
          (m \notin DOMAIN CACHE \/ CACHE'[m] # CACHE[m]) =>
              CACHE'[m].expiry = now' + CACHE_TTL'

\* C15: every entry generate_response writes, whether its value came
\* from openai_responder or from local_responder, has expiry equal to
\* the time of the write plus the one configured CACHE_TTL (60 when the
\* environment does not set it); no tier uses another time to live.
C15_UniformTTL == []C15_EntryTTL /\ [][C15_TierTTL]_vars

\* under the default configuration one entry written by the remote tier
\* and one written by the local tier are in the dict at a later time
C15_Witness ==
    \E r, q \in Requests :
        /\ CACHE_TTL = DEFAULT_CACHE_TTL
        /\ now > 0
        /\ Replied(r) /\ req[r].outcome \in {"ok", "shape"}
        /\ Replied(q) /\ req[q].localCalls = 1
        /\ req[r].message # req[q].message
        /\ DOMAIN CACHE = {req[r].message, req[q].message}
        /\ CACHE[req[r].message].expiry # CACHE[req[q].message].expiry

\* ------------------------------------------------------------------------
\* Properties of the tiers (Spec)

\* openai_responder and local_responder are each invoked at most once per
\* request; local_responder only after the cache check did not serve the
\* request and the remote tier was not configured or its one invocation
\* failed, and every failed invocation is followed by it
C16_NoRetry ==
    \A r \in Requests :
        /\ req[r].remoteCalls <= 1
        /\ req[r].localCalls <= 1
        /\ req[r].remoteCalls = 1 => req[r].checked /\ ~req[r].hit
        /\ req[r].localCalls = 1 =>
              /\ req[r].checked /\ ~req[r].hit
              /\ \/ ~OPENAI_API_KEY /\ req[r].remoteCalls = 0
                 \/ /\ req[r].remoteCalls = 1
                    /\ req[r].outcome \in {"raised", "timeout"}
        /\ req[r].outcome \in {"raised", "timeout"} => req[r].localCalls = 1

\* C16: there is no retry: a request invokes the remote responder at
\* most once, one remote failure goes straight to the local fallback,
\* and the local fallback is invoked at most once and only when the
\* request missed the cache (its key had no unexpired entry) and the
\* remote responder was not configured or failed.
C16_FallbackOnlyOnMiss ==
    /\ C16_NoRetry
    /\ \A r \in Requests : req[r].localCalls = 1 => ~req[r].live

\* ------------------------------------------------------------------------
\* Properties of a cache hit (Spec)

\* the step in which generate_response serves request r from the cache
Hits(r) == req[r].pc = "scheduled" /\ req'[r].hit

\* a request is served only from an entry that has not passed its expiry
C17_ServedBeforeExpiry ==
    \A r \in Requests :
        (req[r].pc = "scheduled" /\ req[r].message \in DOMAIN CACHE
         /\ now > CACHE[req[r].message].expiry) =>
            get_cache(CACHE, req[r].message, now) = None

\* a hit leaves the dict as it is, and the second get_cache of a request
\* served from the cache changes no entry: it can only remove the entry
\* once its expiry has passed
C17_HitKeepsEntry ==
    \A r \in Requests :
        /\ Hits(r) =>
              /\ req[r].message \in DOMAIN CACHE
              /\ now <= CACHE[req[r].message].expiry
              /\ CACHE' = CACHE
              /\ writer' = writer
        /\ (req[r].pc = "scheduled" /\ req[r].message \in DOMAIN CACHE
            /\ now > CACHE[req[r].message].expiry /\ req'[r].pc # "scheduled")
              => ~req'[r].hit /\ ~req'[r].live
        /\ (req[r].pc = "returned" /\ req[r].hit /\ req'[r].pc = "done") =>
              /\ \A m \in DOMAIN CACHE' :
                    m \in DOMAIN CACHE /\ CACHE'[m] = CACHE[m]
              /\ \A m \in DOMAIN CACHE \ DOMAIN CACHE' :
                    m = req[r].message /\ now > CACHE[m].expiry

\* C17: a cache hit does not refresh an entry: a request served from
\* the cache leaves the value and the expiry of the entry unchanged, so
\* the entry is absent to every get_cache later than its expiry however
\* many requests hit it before (the expiry is fixed at the write).
C17_HitDoesNotRefresh ==
    []C17_ServedBeforeExpiry /\ [][C17_HitKeepsEntry]_vars

\* a request was served from the cache, and when chat resumed the entry
\* had passed its expiry all the same and was removed
C17_Witness ==
    \E r \in Requests :
        /\ Replied(r) /\ req[r].hit
        /\ ~req[r].from_cache
        /\ req[r].message \notin DOMAIN CACHE
        /\ req[r].message \in DOMAIN writer
        /\ writer[req[r].message] # r

\* ------------------------------------------------------------------------
\* Properties of the stored values (Spec)

\* the texts openai_responder can return
RemoteReturns ==
    {openai_responder(o).val :
        o \in {x \in RemoteOutcomes : ~openai_responder(x).raised}}

\* the texts generate_response returns on a hit
Decorated == {CacheReply(v) : v \in RemoteReturns}
    \cup {CacheReply(local_responder(m)) : m \in Messages}

\* C18: in every reachable state every entry of the dict has as its
\* value a text returned by openai_responder or by local_responder for a
\* request whose message is the entry's key: the text returned on a hit
\* (the stored value behind the "(cache) " marker) is never written
\* back, and no entry holds a value computed for another message.
C18_EntryFromTier ==
    /\ \A m \in DOMAIN CACHE :
          /\ m \in DOMAIN writer
          /\ LET w == req[writer[m]]
             IN  /\ w.message = m
                 /\ w.wrote /\ ~w.hit
                 /\ CACHE[m].value = w.res
                 /\ IF w.localCalls = 1
                    THEN CACHE[m].value = local_responder(m)
                    ELSE /\ w.remoteCalls = 1
                         /\ w.outcome \in {"ok", "shape"}
                         /\ CACHE[m].value \in RemoteReturns
          /\ CACHE[m].value \notin Decorated
    /\ \A r \in Requests : req[r].hit => ~req[r].wrote /\ req[r].res \in Decorated

\* a request was served from the cache and the entry still holds the
\* undecorated text another request stored
C18_Witness ==
    \E r \in Requests :
        /\ Replied(r) /\ req[r].hit
        /\ req[r].message \in DOMAIN CACHE
        /\ req[r].reply = CacheReply(CACHE[req[r].message].value)
        /\ writer[req[r].message] # r
        /\ CACHE[req[r].message].value = local_responder(req[r].message)
        /\ req[r].reply # CACHE[req[r].message].value

\* ------------------------------------------------------------------------
\* Properties of a request cut by the deadline (Spec)

\* a request that has not passed its remote call, or that was cut by
\* wait_for, has called neither local_responder nor set_cache and is the
\* writer of no entry
C19_NothingWritten ==
    \A r \in Requests :
        (req[r].pc \in {"scheduled", "remote"} \/ req[r].timedOut) =>
            /\ ~req[r].wrote
            /\ req[r].localCalls = 0
            /\ \A m \in DOMAIN writer : writer[m] # r
            /\ req[r].timedOut => Done(r) /\ req[r].status = 504

\* the cache check of a request that goes on to the remote call changes
\* the dict only by removing the request's own expired entry; the step
\* that cuts a request changes nothing in the dict; a request that was
\* cut takes no further step
C19_OnlyEviction ==
    \A r \in Requests :
        /\ (req[r].pc = "scheduled" /\ req'[r].pc \in {"remote", "done"}) =>
              /\ \A m \in DOMAIN CACHE' :
                    m \in DOMAIN CACHE /\ CACHE'[m] = CACHE[m]
              /\ \A m \in DOMAIN CACHE \ DOMAIN CACHE' :
                    m = req[r].message /\ now > CACHE[m].expiry
              /\ writer' = writer
        /\ (~req[r].timedOut /\ req'[r].timedOut) =>
              /\ req[r].pc \in {"scheduled", "remote"}
              /\ CACHE' = CACHE
              /\ writer' = writer
        /\ req[r].timedOut => req'[r] = req[r]

\* C19: a request that ends with the timeout of wait_for writes nothing
\* to the cache, before or after the deadline fires: its one suspension
\* point, the remote call, lies before each of its set_cache calls, and
\* the cancelled task writes nothing, so the dict differs from its state
\* at the request's start only by other requests' operations and by the
\* request's own eviction of an expired entry at its cache check.
C19_TimedOutWritesNothing ==
    []C19_NothingWritten /\ [][C19_OnlyEviction]_vars

\* a request was cut during its remote call while the entry of its
\* message, written by another request, is in the dict
C19_Witness ==
    \E r, q \in Requests :
        /\ r # q
        /\ Done(r) /\ req[r].timedOut /\ req[r].remoteCalls = 1
        /\ req[q].message = req[r].message
        /\ req[q].wrote
        /\ req[r].message \in DOMAIN CACHE
        /\ writer[req[r].message] = q

====
